---- MODULE Spec2Model ----
(***************************************************************************)
(* NostrX (src/nostrx.py): one-way sync of Nostr notes to Twitter/X.       *)
(*                                                                         *)
(* The model follows the process from SyncTool() (load_state) through      *)
(* SyncTool.run(): setup_twitter, fetch, sort, and the per-event loop      *)
(* (dedup, reply filter, media download/upload, create_tweet, checkpoint   *)
(* update, save_state, cleanup).  The relays, the Twitter API, the file    *)
(* system and the wall clock are the environment: their answers are        *)
(* nondeterministic inputs of the actions.                                 *)
(***************************************************************************)
EXTENDS Integers, Sequences, FiniteSets, TLC

(***************************************************************************)
(* Bounds of the model.                                                    *)
(***************************************************************************)
\* number of distinct notes the monitored authors may ever publish
NumPosts == 3
\* created_at values of the notes are 1..MaxTime
MaxTime == 3
\* time.time() at a process start is Day + (1..MaxClock); the wall clock is
\* the environment's and may be set back between two invocations
MaxClock == 1
\* number of process invocations in one behaviour
MaxRuns == 2
\* number of environment faults (download, API or write error, kill) in one
\* behaviour
MaxFaults == 1
\* length of synced_event_ids in the state file found by the first invocation
MaxInitIds == 1
\* number of notes that reach the relays only after the model starts
MaxLate == 1
\* number of notes that are replies
MaxReplies == 1
\* length of the texts given to extract_media_urls, in symbols
MaxText == 6
\* invocations and faults in the behaviours that start from the single
\* initial state of InitDeep
DeepRuns == 3
DeepFaults == 2

(***************************************************************************)
(* Program constants.                                                      *)
(***************************************************************************)
\* save_state keeps the last 1000 ids (line 78); scaled down so that the
\* model's NumPosts notes can overflow the list.
Cap == 2
\* default state: int(time.time()) - 86400 (line 72)
Day == 86400
\* the longest text create_tweet is given (line 261: 280) and the number of
\* characters kept in front of the "..." (line 262: 277), scaled down to
\* the texts of the model with their difference kept
TweetLimit == 4
TweetKeep == 1

Posts == 1..NumPosts
Times == 1..MaxTime
Clock == {Day + c : c \in 1..MaxClock}

\* Tag lists note p may carry; a tag is the vector tag.as_vec().  Every note
\* has one list without and one list with a reply marker to choose from.
PlainTags(p) ==
  CASE p % 3 = 1 -> << >>
    [] p % 3 = 2 -> << <<"p", "x">>, << >> >>
    [] OTHER     -> << <<"t", "x">> >>

ReplyTags(p) ==
  CASE p % 3 = 1 -> << <<"p", "x">>, <<"e", "x">> >>
    [] p % 3 = 2 -> << <<"reply">> >>
    [] OTHER     -> << <<"e", "x">>, <<"p", "x">> >>

TagLists(p) == {PlainTags(p), ReplyTags(p)}

\* The media URLs found in the content of note p (extract_media_urls):
\* every second note carries two, the others none.
MediaUrls(p) == [k \in 1..(IF p % 2 = 0 THEN 2 ELSE 0) |-> <<p, k>>]

\* Environment answers for one media URL.
\*   "dl_fail": download_media returns None before a temp file exists
\*              (requests.get raises, or the status is not 200)
\*   "dl_cut" : download_media returns None after NamedTemporaryFile
\*              (iter_content or tf.write raises)
\*   "up_fail": downloaded, media_upload raises
\*   "ok"     : downloaded and (when a client exists) uploaded
MediaOutcomes == {"dl_fail", "dl_cut", "up_fail", "ok"}

\* download_media returned a path
Downloaded(o) == o \in {"up_fail", "ok"}

\* download_media got as far as NamedTemporaryFile(delete=False)
FileMade(o) == o \in {"dl_cut", "up_fail", "ok"}

\* The four Twitter credentials as read from the environment (TRUE: set).
CredSets ==
  { <<TRUE, TRUE, TRUE, TRUE>>,
    <<TRUE, FALSE, TRUE, TRUE>>,
    <<TRUE, TRUE, TRUE, FALSE>>,
    <<FALSE, FALSE, FALSE, FALSE>> }

\* NOSTR_NPUBS and NOSTR_RELAYS as found in the environment:
\*   "unset": not set, or the empty string
\*   "blank": set, but no entry is left after the split and strip (",", " ")
\*   "set"  : at least one entry
EnvValues == {"unset", "blank", "set"}

\* line 33: the number of entries of MONITORED_NPUBS (one stands for many)
MONITORED_NPUBS(env) == IF env = "set" THEN 1 ELSE 0

\* lines 36-45: the number of entries of NOSTR_RELAYS
NOSTR_RELAYS(env) ==
  CASE env = "unset" -> 4
    [] env = "blank" -> 0
    [] OTHER -> 1

\* what run() asks of the two lists: whether they are empty
Configs ==
  {[authors |-> MONITORED_NPUBS(a) > 0, relays |-> NOSTR_RELAYS(r) > 0] :
     a \in EnvValues, r \in EnvValues}

Usable(cfg) == cfg.authors /\ cfg.relays

\* fetch_events on a client without relays, which the source does not
\* define: it returns no event or it raises
FetchOutcomes == {"ok", "raise"}

VARIABLES
  created_at,      \* event.created_at().as_secs() of every note
  tags,            \* event.tags().to_vec() of every note
  source,          \* notes the relays hold
  file,            \* STATE_FILE on disk
  pc,              \* "idle": no process; "loop": inside the for loop of run()
  credMissing,     \* one of the TWITTER_* settings of the latest process is unset
  twitter,         \* self.twitter_client / self.twitter_v2 is not None
  state,           \* self.state (of the latest process, as of its last iteration)
  new_last_ts,     \* local new_last_ts of run()
  event_list,      \* local event_list of run(), after the sort
  idx,             \* position of the for loop in event_list (1-based)
  reordered,       \* history: the sort changed the order of the fetched list
  runNo,           \* history: number of processes started
  faults,          \* history: number of environment faults so far
  tweets,          \* history: every create_tweet call, in call order, with
                   \*   what became of the save_state behind it
  lastItem,        \* history: what the latest loop iteration did
  runStart,        \* history: STATE_FILE and self.state at process start
  runs,            \* history: how every finished process ended, in order
  budget,          \* invocations and faults the behaviour may hold
  tmpdir,          \* temp files on disk, named <<process, note, url index>>
  config,          \* MONITORED_NPUBS / NOSTR_RELAYS is not empty
  file0,           \* history: STATE_FILE before the first process
  content,         \* event.content() of the note whose text is followed
  clean_text,      \* local clean_text of run()
  media_urls,      \* local media_urls of run()
  tweet_text       \* the text argument of create_tweet

vars ==
  << created_at, tags, source, file, pc, credMissing, twitter, state,
     new_last_ts, event_list, idx, reordered, runNo, faults, tweets,
     lastItem, runStart, runs, budget, tmpdir, config, file0,
     content, clean_text, media_urls, tweet_text >>

\* the variables of the text of one note, and the others but pc
textvars == << content, clean_text, media_urls, tweet_text >>

syncvars ==
  << created_at, tags, source, file, credMissing, twitter, state,
     new_last_ts, event_list, idx, reordered, runNo, faults, tweets,
     lastItem, runStart, runs, budget, tmpdir, config, file0 >>

(***************************************************************************)
(* Helpers.                                                                *)
(***************************************************************************)
Range(s) == {s[i] : i \in DOMAIN s}

\* all orders in which the set S can be listed
Perms(S) ==
  {f \in [1..Cardinality(S) -> S] : \A x \in S : \E i \in DOMAIN f : f[i] = x}

\* sequences over S without repetition, of length at most n
DistinctSeqs(S, n) ==
  UNION {{f \in [1..k -> S] : \A i, j \in 1..k : i # j => f[i] # f[j]} : k \in 0..n}

\* Python s[:n]
FirstN(s, n) == IF Len(s) <= n THEN s ELSE SubSeq(s, 1, n)

\* Python s[-n:] for n > 0
LastN(s, n) == IF Len(s) <= n THEN s ELSE SubSeq(s, Len(s) - n + 1, Len(s))

\* list.sort(key=created_at): stable, ascending
RECURSIVE InsertByKey(_, _, _)
InsertByKey(s, e, key) ==
  IF s = << >> THEN <<e>>
  ELSE IF key[s[Len(s)]] <= key[e] THEN Append(s, e)
       ELSE Append(InsertByKey(SubSeq(s, 1, Len(s) - 1), e, key), s[Len(s)])

\* the sort left out
NoSort(s, key) == s

RECURSIVE SortByKey(_, _)
SortByKey(s, key) ==
  IF s = << >> THEN << >>
  ELSE InsertByKey(SortByKey(SubSeq(s, 1, Len(s) - 1), key), s[Len(s)], key)

(***************************************************************************)
(* Media handling: extract_media_urls (lines 87-105) on texts written in   *)
(* symbols, each standing for a group of characters of a real text:        *)
(*   "u"  a URL scheme, "http://" or "https://"                            *)
(*   "a"  other characters that are not whitespace                         *)
(*   "j"  an extension of MEDIA_EXTENSIONS in lower case, ".jpg"           *)
(*   "J"  the same in upper case, ".JPG"                                   *)
(*   "h"  an extension that is not in the list, ".html"                    *)
(*   " "  whitespace                                                       *)
(* Lengths are counted in symbols.                                         *)
(***************************************************************************)
Chars == {"u", "a", "j", "J", "h", " "}
Texts == UNION {[1..n -> Chars] : n \in 0..MaxText}

\* line 57, in symbols
MEDIA_EXTENSIONS == {"j"}

\* str.lower()
Lower(s) == [i \in DOMAIN s |-> IF s[i] = "J" THEN "j" ELSE s[i]]

\* the last position of the run of non-whitespace that holds position i
RECURSIVE TokenEnd(_, _)
TokenEnd(s, i) ==
  IF i < Len(s) /\ s[i + 1] # " " THEN TokenEnd(s, i + 1) ELSE i

\* line 94: re.findall(r'https?://\S+', s), scanning from position i
RECURSIVE FindUrls(_, _)
FindUrls(s, i) ==
  IF i > Len(s) THEN << >>
  ELSE IF s[i] = "u" /\ i < Len(s) /\ s[i + 1] # " "
       THEN LET e == TokenEnd(s, i + 1)
            IN  <<SubSeq(s, i, e)>> \o FindUrls(s, e + 1)
       ELSE FindUrls(s, i + 1)

\* line 99: any(lower_url.endswith(ext) for ext in MEDIA_EXTENSIONS)
IsMedia(url) == Lower(url)[Len(url)] \in MEDIA_EXTENSIONS

\* s.replace(u, ""), from position i: every occurrence of u, left to right
RECURSIVE Replace(_, _, _)
Replace(s, u, i) ==
  IF i > Len(s) THEN << >>
  ELSE IF i + Len(u) - 1 <= Len(s) /\ SubSeq(s, i, i + Len(u) - 1) = u
       THEN Replace(s, u, i + Len(u))
       ELSE <<s[i]>> \o Replace(s, u, i + 1)

\* str.strip()
RECURSIVE Strip(_)
Strip(s) ==
  IF s = << >> THEN s
  ELSE IF s[1] = " " THEN Strip(Tail(s))
  ELSE IF s[Len(s)] = " " THEN Strip(SubSeq(s, 1, Len(s) - 1))
  ELSE s

\* lines 96-103: the loop over found_urls, from its k-th element
RECURSIVE ExtractLoop(_, _, _, _)
ExtractLoop(clean_content, urls, found_urls, k) ==
  IF k > Len(found_urls) THEN [clean_content |-> clean_content, urls |-> urls]
  ELSE IF IsMedia(found_urls[k])
       THEN ExtractLoop(Strip(Replace(clean_content, found_urls[k], 1)),
                        Append(urls, found_urls[k]), found_urls, k + 1)
       ELSE ExtractLoop(clean_content, urls, found_urls, k + 1)

extract_media_urls(text) == ExtractLoop(text, << >>, FindUrls(text, 1), 1)

\* the "..." of line 262
Ellipsis == <<".", ".", ".">>

\* the text cut at the limit itself
TweetText_CutAtLimit(text) ==
  IF Len(text) > TweetLimit THEN SubSeq(text, 1, TweetLimit) \o Ellipsis ELSE text

\* lines 261-262: the text given to create_tweet
TweetText(text) ==
  IF Len(text) > TweetLimit THEN SubSeq(text, 1, TweetKeep) \o Ellipsis ELSE text

(***************************************************************************)
(* State management (lines 63-81).                                         *)
(***************************************************************************)
Checkpoint(ts, ids) == [last_synced_timestamp |-> ts, synced_event_ids |-> ids]

NoData == Checkpoint(0, << >>)
Missing == [kind |-> "missing", data |-> NoData]
Corrupt == [kind |-> "corrupt", data |-> NoData]
Json(st) == [kind |-> "json", data |-> st]
\* files that parse but are no checkpoint: an object without a numeric
\* "last_synced_timestamp" (or no object at all), and an object with one
\* whose "synced_event_ids" is absent or no container (null, a number)
NoTimestamp == [kind |-> "no_ts", data |-> NoData]
NoIds(ts) == [kind |-> "no_ids", data |-> Checkpoint(ts, << >>)]

\* json.load succeeds on the file
Parses(f) == f.kind \in {"json", "no_ts", "no_ids"}

\* the file never read
load_state_Fresh(f, clock) == Checkpoint(clock - Day, << >>)

\* load_state(): the parsed file, or the default when it is missing or
\* does not parse.
load_state(f, clock) ==
  IF Parses(f) THEN f.data ELSE Checkpoint(clock - Day, << >>)

\* what the value returned by load_state lacks: "json" stands for nothing
LoadedShape(f) == IF Parses(f) THEN f.kind ELSE "json"

\* first statement of save_state(): state["synced_event_ids"][-1000:]
Truncate(st) ==
  [st EXCEPT !.synced_event_ids = LastN(st.synced_event_ids, Cap)]

\* STATE_FILE after save_state(st) under environment answer sv
\*   "ok"          : written in full
\*   "open_fail"   : open(STATE_FILE, 'w') raises, nothing written
\*   "write_fail"  : opened (so emptied), json.dump raises part-way
\*   "kill_before" : process killed before save_state is reached
\*   "kill_during" : process killed after open, before the dump is complete
SaveOutcomes == {"ok", "open_fail", "write_fail", "kill_before", "kill_during"}

FileAfterSave(f, st, sv) ==
  CASE sv = "ok" -> Json(Truncate(st))
    [] sv \in {"write_fail", "kill_during"} -> Corrupt
    [] OTHER -> f

(***************************************************************************)
(* setup_twitter (lines 141-159).                                          *)
(***************************************************************************)
\* any() where all() is meant
setup_twitter_Any(c) == \E i \in DOMAIN c : c[i]

setup_twitter(c) == \A i \in DOMAIN c : c[i]

(***************************************************************************)
(* The reply filter (lines 219-225).                                       *)
(***************************************************************************)
\* only the 'e' marker looked for
is_reply_OnlyE(tagvec) ==
  \E i \in DOMAIN tagvec : Len(tagvec[i]) > 0 /\ tagvec[i][1] = "e"

is_reply(tagvec) ==
  \E i \in DOMAIN tagvec :
     Len(tagvec[i]) > 0 /\ tagvec[i][1] \in {"e", "reply"}

(***************************************************************************)
(* The loop body of run() (lines 212-295), as operators on one event.      *)
(***************************************************************************)
Call(op, arg, ok) == [op |-> op, arg |-> arg, ok |-> ok]

\* lines 245-255: download every URL; upload what was downloaded when a
\* v1.1 client exists.  The calls made, in call order.
RECURSIVE MediaCalls(_, _, _, _)
MediaCalls(urls, outs, tw, k) ==
  IF k > Len(urls) THEN << >>
  ELSE LET dl == <<Call("download", <<urls[k]>>, Downloaded(outs[k]))>>
           up == IF Downloaded(outs[k]) /\ tw
                 THEN <<Call("upload", <<urls[k]>>, outs[k] = "ok")>>
                 ELSE << >>
       IN  dl \o up \o MediaCalls(urls, outs, tw, k + 1)

\* a handle kept for every file that was downloaded, uploaded or not
RECURSIVE MediaIds_Downloaded(_, _, _, _)
MediaIds_Downloaded(urls, outs, tw, k) ==
  IF k > Len(urls) THEN << >>
  ELSE (IF Downloaded(outs[k]) /\ tw THEN <<urls[k]>> ELSE << >>)
       \o MediaIds_Downloaded(urls, outs, tw, k + 1)

\* media_ids after the download loop: one handle per successful upload
\* (the handle of a URL is written as the URL; an empty list stands for
\* the call of line 267, which passes no media_ids)
RECURSIVE MediaIds(_, _, _, _)
MediaIds(urls, outs, tw, k) ==
  IF k > Len(urls) THEN << >>
  ELSE (IF outs[k] = "ok" /\ tw THEN <<urls[k]>> ELSE << >>)
       \o MediaIds(urls, outs, tw, k + 1)

\* the id recorded, the timestamp left alone
Recorded_KeepTs(st, nlt, e, ts) ==
  [last_synced_timestamp |-> st.last_synced_timestamp,
   synced_event_ids |-> Append(st.synced_event_ids, e)]

\* lines 272-275: the checkpoint after a successful create_tweet
Recorded(st, nlt, e, ts) ==
  [last_synced_timestamp |-> IF ts > nlt THEN ts ELSE st.last_synced_timestamp,
   synced_event_ids |-> Append(st.synced_event_ids, e)]

\* lines 273-274: new_last_ts after a successful create_tweet
NewLastTs(nlt, ts) == IF ts > nlt THEN ts ELSE nlt

\* the updates made before create_tweet is called
AfterTweet_Eager(old, new, tw) == new

\* lines 259-280: the updates sit behind create_tweet inside the try block,
\* so an exception of create_tweet skips them (old is kept, new otherwise)
AfterTweet(old, new, tw) == IF tw = "ok" THEN new ELSE old

\* only the most recent id compared
is_duplicate_LastOnly(st, e) ==
  /\ st.synced_event_ids # << >>
  /\ e = st.synced_event_ids[Len(st.synced_event_ids)]

\* line 216
is_duplicate(st, e) == e \in Range(st.synced_event_ids)

\* the filter of line 192 as the relays apply it: since = last_ts + 1
Matching(src, ca, last_ts) == {p \in src : ca[p] >= last_ts + 1}

NoItem ==
  [run |-> 0, idx |-> 0, id |-> 0, before |-> NoData, fileBefore |-> Missing,
   calls |-> << >>]

\* net: the calls made on the Nostr client (setup_nostr, fetch_events)
NoStart == [file |-> Missing, state |-> NoData, source |-> {}, net |-> << >>]

\* how a process ended, for later ones to compare with
\*   ended : "returned" (run() returned), "killed", "raised_fetch"
\*           (fetch_events raised out of run()) or "raised_state" (a use of
\*           self.state raised out of run())
\*   file, state : STATE_FILE and self.state when it ended
\*   source, twitter : what it fetched from, whether it had a Twitter client
RunEnd(how, f, st, src, tw) ==
  [ended |-> how, file |-> f, state |-> st, source |-> src, twitter |-> tw]

(***************************************************************************)
(* Initial states: any notes, most of them on the relays, no process, a    *)
(* state file that is absent or holds some earlier checkpoint, and the     *)
(* configuration every process of the behaviour will find (lines 32-45).   *)
(***************************************************************************)
InitFiles ==
  {Missing, NoTimestamp} \cup {NoIds(t) : t \in 0..MaxTime} \cup
  {Json(Checkpoint(t, s)) :
     t \in 0..MaxTime,
     s \in DistinctSeqs(Posts, IF MaxInitIds < Cap THEN MaxInitIds ELSE Cap)}

\* Notes are numbered in the order of their created_at, and time is counted
\* from the oldest note.
Init ==
  /\ created_at \in {f \in [Posts -> Times] :
                        /\ f[1] = 1
                        /\ \A p, q \in Posts : p <= q => f[p] <= f[q]}
  /\ tags \in {f \in [Posts -> UNION {TagLists(p) : p \in Posts}] :
                  /\ \A p \in Posts : f[p] \in TagLists(p)
                  /\ Cardinality({p \in Posts : f[p] = ReplyTags(p)}) <= MaxReplies}
  /\ source \in {S \in SUBSET Posts : Cardinality(Posts \ S) <= MaxLate}
  /\ file \in InitFiles
  /\ file0 = file
  /\ config \in Configs
  \* without an author or a relay no note is ever looked at: one choice of
  \* notes stands for all
  /\ ~Usable(config) => /\ created_at = [p \in Posts |-> 1]
                        /\ tags = [p \in Posts |-> PlainTags(p)]
                        /\ source = Posts
  /\ pc = "idle"
  /\ credMissing = TRUE
  /\ twitter = FALSE
  /\ state = NoData
  /\ new_last_ts = 0
  /\ event_list = << >>
  /\ idx = 1
  /\ reordered = FALSE
  /\ runNo = 0
  /\ faults = 0
  /\ tweets = << >>
  /\ lastItem = NoItem
  /\ runStart = NoStart
  /\ runs = << >>
  /\ budget = [runs |-> MaxRuns, faults |-> MaxFaults]
  /\ tmpdir = {}
  /\ content = << >>
  /\ clean_text = << >>
  /\ media_urls = << >>
  /\ tweet_text = << >>

(***************************************************************************)
(* An author publishes note p to the relays.                               *)
(***************************************************************************)
AddPost(p) ==
  /\ pc = "idle"
  /\ runNo < budget.runs
  /\ p \notin source
  /\ source' = source \cup {p}
  /\ UNCHANGED << created_at, tags, file, pc, credMissing, twitter, state,
                  new_last_ts, event_list, idx, reordered, runNo, faults,
                  tweets, lastItem, runStart, runs, budget, tmpdir, config, file0 >>
  /\ UNCHANGED textvars

(***************************************************************************)
(* A process is started: SyncTool() loads the state (line 136), run()      *)
(* sets up the clients, fetches and sorts (lines 178-208).  ord is the     *)
(* order in which the relays' answer lists the matching notes.             *)
(***************************************************************************)
StartRun(t, c, fr, ord) ==
  /\ pc = "idle"
  /\ runNo < budget.runs
  /\ t \in Clock
  /\ LET st      == load_state(file, t)
         shape   == LoadedShape(file)
         authors == config.authors
         relays  == config.relays
         \* line 198: the relays answer with the matching notes
         asked   == IF authors /\ relays /\ shape # "no_ts"
                    THEN Matching(source, created_at, st.last_synced_timestamp)
                    ELSE {}
         el      == SortByKey(ord, created_at)
         tw      == setup_twitter(c)
         end(how) == Append(runs, RunEnd(how, file, st, source, tw))
     IN  /\ ord \in Perms(asked)
         /\ (authors /\ ~relays) \/ fr = "ok"
         /\ credMissing' = (\E k \in DOMAIN c : ~c[k])
         /\ twitter' = tw
         /\ state' = st
         /\ new_last_ts' = st.last_synced_timestamp
         /\ reordered' = (el # ord)
         /\ event_list' = el
         /\ idx' = 1
         /\ runNo' = runNo + 1
         /\ lastItem' = NoItem
         /\ runStart' = [file |-> file, state |-> st, source |-> source,
                         net |-> IF ~authors THEN << >>
                                 ELSE IF shape = "no_ts" THEN <<"connect">>
                                 ELSE <<"connect", "fetch_events">>]
         /\ IF ~authors
            THEN \* lines 180-182
                 /\ pc' = "idle"
                 /\ runs' = end("returned")
            ELSE IF shape = "no_ts"
            THEN \* lines 188-189: KeyError or TypeError
                 /\ pc' = "idle"
                 /\ runs' = end("raised_state")
            ELSE IF fr = "raise"
            THEN \* line 198 raises out of run()
                 /\ pc' = "idle"
                 /\ runs' = end("raised_fetch")
            ELSE IF el = << >>
            THEN \* lines 204-206
                 /\ pc' = "idle"
                 /\ runs' = end("returned")
            ELSE IF shape = "no_ids"
            THEN \* line 216, first iteration: KeyError or TypeError
                 /\ pc' = "idle"
                 /\ runs' = end("raised_state")
            ELSE /\ pc' = "loop"
                 /\ runs' = runs
  /\ UNCHANGED << created_at, tags, source, file, faults, tweets, budget,
                  tmpdir, config, file0 >>
  /\ UNCHANGED textvars

(***************************************************************************)
(* One iteration of the for loop (lines 212-295) on event_list[idx].       *)
(*   outs: the environment's answer for each media URL of the event        *)
(*   tw  : create_tweet returns ("ok") or raises ("fail")                  *)
(*   sv  : what happens in save_state (SaveOutcomes)                       *)
(* Answers that are never asked for are fixed to "ok".                     *)
(***************************************************************************)
ProcessItem(outs, tw, sv) ==
  /\ pc = "loop"
  /\ idx <= Len(event_list)
  /\ LET e     == event_list[idx]
         urls  == MediaUrls(e)
         skip  == is_duplicate(state, e) \/ is_reply(tags[e])
         post  == ~skip /\ twitter
         mcs   == MediaCalls(urls, outs, twitter, 1)
         mids  == MediaIds(urls, outs, twitter, 1)
         rec   == Recorded(state, new_last_ts, e, created_at[e])
         after == AfterTweet(state, rec, tw)
         nlt   == AfterTweet(new_last_ts, NewLastTs(new_last_ts, created_at[e]), tw)
         killed == post /\ tw = "ok" /\ sv \in {"kill_before", "kill_during"}
         nf    == Cardinality({k \in DOMAIN urls : outs[k] # "ok"})
                  + (IF post /\ tw = "fail" THEN 1 ELSE 0)
                  + (IF post /\ tw = "ok" /\ sv # "ok" THEN 1 ELSE 0)
         item(cs) == [run |-> runNo, idx |-> idx, id |-> e, before |-> state,
                      fileBefore |-> file, calls |-> cs]
         \* lines 121 and 248: the files made, and those of them temp_files
         \* names for the cleanup of lines 288-292
         made    == {<<runNo, e, k>> : k \in {j \in DOMAIN urls : FileMade(outs[j])}}
         tracked == {<<runNo, e, k>> : k \in {j \in DOMAIN urls : Downloaded(outs[j])}}
     IN  /\ outs \in [DOMAIN urls -> MediaOutcomes]
         /\ skip => \A k \in DOMAIN urls : outs[k] = "ok"
         /\ ~twitter => \A k \in DOMAIN urls : outs[k] # "up_fail"
         /\ ~post => tw = "ok"
         /\ ~(post /\ tw = "ok") => sv = "ok"
         /\ faults + nf <= budget.faults
         /\ faults' = faults + nf
         /\ IF skip
            THEN \* lines 216-217 and 227-229: continue
                 /\ lastItem' = item(<< >>)
                 /\ UNCHANGED << state, new_last_ts, file, tweets >>
            ELSE IF ~twitter
            THEN \* line 282: dry run, nothing is posted or recorded
                 /\ lastItem' = item(mcs)
                 /\ UNCHANGED << state, new_last_ts, file, tweets >>
            ELSE IF tw = "fail"
            THEN \* line 279: create_tweet raised
                 /\ lastItem' = item(Append(mcs, Call("create_tweet", mids, FALSE)))
                 /\ tweets' = Append(tweets, [run |-> runNo, id |-> e, ok |-> FALSE,
                                              saved |-> FALSE, sv |-> "none"])
                 /\ state' = after
                 /\ new_last_ts' = nlt
                 /\ file' = file
            ELSE \* lines 265-277
                 /\ lastItem' =
                      item(Append(mcs, Call("create_tweet", mids, TRUE))
                           \o (IF sv = "kill_before" THEN << >>
                               ELSE <<Call("save_state", << >>, sv = "ok")>>))
                 /\ tweets' = Append(tweets, [run |-> runNo, id |-> e, ok |-> TRUE,
                                              saved |-> sv = "ok", sv |-> sv])
                 /\ state' = IF killed THEN state ELSE Truncate(after)
                 /\ new_last_ts' = IF killed THEN new_last_ts ELSE nlt
                 /\ file' = FileAfterSave(file, after, sv)
         /\ tmpdir' = IF skip THEN tmpdir
                       ELSE IF killed THEN tmpdir \cup made
                       ELSE tmpdir \cup (made \ tracked)
         /\ IF killed
            THEN /\ pc' = "idle"
                 /\ idx' = idx
                 /\ runs' = Append(runs, RunEnd("killed", file', state',
                                                runStart.source, twitter))
            ELSE \* lines 279-280 swallow every exception of the try block
                 /\ pc' = "loop"
                 /\ idx' = idx + 1
                 /\ runs' = runs
  /\ UNCHANGED << created_at, tags, source, credMissing, twitter, event_list,
                  reordered, runNo, runStart, budget, config, file0 >>
  /\ UNCHANGED textvars

(***************************************************************************)
(* The for loop is exhausted: run() returns and the process exits.         *)
(***************************************************************************)
EndRun ==
  /\ pc = "loop"
  /\ idx > Len(event_list)
  /\ pc' = "idle"
  /\ runs' = Append(runs, RunEnd("returned", file, state,
                                 runStart.source, twitter))
  /\ lastItem' = NoItem
  /\ UNCHANGED << created_at, tags, source, file, credMissing, twitter, state,
                  new_last_ts, event_list, idx, reordered, runNo, faults,
                  tweets, runStart, budget, tmpdir, config, file0 >>
  /\ UNCHANGED textvars

(***************************************************************************)
(* The process is killed between two iterations.                           *)
(***************************************************************************)
Kill ==
  /\ pc = "loop"
  /\ idx <= Len(event_list)
  /\ faults < budget.faults
  /\ faults' = faults + 1
  /\ pc' = "idle"
  /\ runs' = Append(runs, RunEnd("killed", file, state,
                                 runStart.source, twitter))
  /\ UNCHANGED << created_at, tags, source, file, credMissing, twitter, state,
                  new_last_ts, event_list, idx, reordered, runNo, tweets,
                  lastItem, runStart, budget, tmpdir, config, file0 >>
  /\ UNCHANGED textvars

Next ==
  \/ \E p \in Posts : AddPost(p)
  \/ /\ pc = "idle"
     /\ \E t \in Clock, c \in CredSets, fr \in FetchOutcomes :
          \E ord \in Perms(IF Usable(config) /\ LoadedShape(file) # "no_ts"
                            THEN Matching(source, created_at,
                                          load_state(file, t).last_synced_timestamp)
                            ELSE {}) :
             StartRun(t, c, fr, ord)
  \/ /\ pc = "loop"
     /\ idx <= Len(event_list)
     /\ \E outs \in [DOMAIN MediaUrls(event_list[idx]) -> MediaOutcomes],
           tw \in {"ok", "fail"}, sv \in SaveOutcomes :
          ProcessItem(outs, tw, sv)
  \/ EndRun
  \/ Kill

Spec == Init /\ [][Next]_vars

(***************************************************************************)
(* The same program followed through more invocations and faults, from one *)
(* initial state: no state file, three plain notes with created_at 2, 3    *)
(* and 4, the newest of them not yet on the relays.                        *)
(***************************************************************************)
InitDeep ==
  /\ created_at = [p \in Posts |-> p + 1]
  /\ tags = [p \in Posts |-> PlainTags(p)]
  /\ source = Posts \ {NumPosts}
  /\ file = Missing
  /\ file0 = Missing
  /\ config = [authors |-> TRUE, relays |-> TRUE]
  /\ pc = "idle"
  /\ credMissing = TRUE
  /\ twitter = FALSE
  /\ state = NoData
  /\ new_last_ts = 0
  /\ event_list = << >>
  /\ idx = 1
  /\ reordered = FALSE
  /\ runNo = 0
  /\ faults = 0
  /\ tweets = << >>
  /\ lastItem = NoItem
  /\ runStart = NoStart
  /\ runs = << >>
  /\ budget = [runs |-> DeepRuns, faults |-> DeepFaults]
  /\ tmpdir = {}
  /\ content = << >>
  /\ clean_text = << >>
  /\ media_urls = << >>
  /\ tweet_text = << >>

SpecDeep == InitDeep /\ [][Next]_vars

(***************************************************************************)
(* The text of one note on its way through the loop body: content (line    *)
(* 232), extract_media_urls (line 233), the cut to the limit (lines        *)
(* 261-262) and the call of create_tweet (lines 264-267).                  *)
(***************************************************************************)
InitText ==
  /\ content \in Texts
  /\ clean_text = << >>
  /\ media_urls = << >>
  /\ tweet_text = << >>
  /\ pc = "content"
  /\ created_at = [p \in Posts |-> 1]
  /\ tags = [p \in Posts |-> PlainTags(p)]
  /\ source = Posts
  /\ file = Missing
  /\ file0 = Missing
  /\ config = [authors |-> TRUE, relays |-> TRUE]
  /\ credMissing = FALSE
  /\ twitter = TRUE
  /\ state = NoData
  /\ new_last_ts = 0
  /\ event_list = << >>
  /\ idx = 1
  /\ reordered = FALSE
  /\ runNo = 0
  /\ faults = 0
  /\ tweets = << >>
  /\ lastItem = NoItem
  /\ runStart = NoStart
  /\ runs = << >>
  /\ budget = [runs |-> 0, faults |-> 0]
  /\ tmpdir = {}

\* line 233
Extract ==
  /\ pc = "content"
  /\ pc' = "extracted"
  /\ clean_text' = extract_media_urls(content).clean_content
  /\ media_urls' = extract_media_urls(content).urls
  /\ UNCHANGED << content, tweet_text >>
  /\ UNCHANGED syncvars

\* lines 258-267, with a Twitter client
CreateTweet ==
  /\ pc = "extracted"
  /\ pc' = "tweeted"
  /\ tweet_text' = TweetText(clean_text)
  /\ UNCHANGED << content, clean_text, media_urls >>
  /\ UNCHANGED syncvars

NextText == Extract \/ CreateTweet

SpecText == InitText /\ [][NextText]_vars

(***************************************************************************)
(* Vocabulary of the properties.                                           *)
(***************************************************************************)
\* lastItem describes a loop iteration
ItemDone == lastItem.run > 0

\* note p carries a reply marker
IsReplyNote(p) == tags[p] = ReplyTags(p)

\* the calls of kind op the latest iteration made
ItemCalls(op) == {i \in DOMAIN lastItem.calls : lastItem.calls[i].op = op}

\* the create_tweet calls of process r, as positions of tweets
TweetsOf(r) == {i \in DOMAIN tweets : tweets[i].run = r}

FileIds == IF file.kind = "json" THEN Range(file.data.synced_event_ids) ELSE {}

(***************************************************************************)
(* C1. Dedup: an event whose id is in synced_event_ids when the loop       *)
(* reaches it causes no media upload and no create_tweet, although the     *)
(* fetch returned it (its created_at lies in the fetch window).            *)
(***************************************************************************)
C1_DuplicateNeverPublished ==
  (ItemDone /\ lastItem.id \in Range(lastItem.before.synced_event_ids))
    => /\ ItemCalls("upload") = {}
       /\ ItemCalls("create_tweet") = {}
       /\ \A i \in TweetsOf(lastItem.run) : tweets[i].id # lastItem.id

C1_Witness ==
  /\ ItemDone
  /\ lastItem.id \in Range(lastItem.before.synced_event_ids)
  /\ twitter
  /\ ~IsReplyNote(lastItem.id)
  /\ created_at[lastItem.id] > runStart.state.last_synced_timestamp
  /\ TweetsOf(lastItem.run) # {}

(***************************************************************************)
(* C2. Ordering: whatever the order of the fetched list, the create_tweet  *)
(* calls of one process are made in non-decreasing created_at order.       *)
(***************************************************************************)
C2_PublishInTimestampOrder ==
  \A i, j \in DOMAIN tweets :
     (i < j /\ tweets[i].run = tweets[j].run)
       => created_at[tweets[i].id] <= created_at[tweets[j].id]

C2_Witness ==
  /\ reordered
  /\ \E i, j, k \in TweetsOf(runNo) :
        /\ i < j /\ j < k
        /\ created_at[tweets[i].id] < created_at[tweets[j].id]
        /\ created_at[tweets[j].id] < created_at[tweets[k].id]

(***************************************************************************)
(* C3. A failed create_tweet leaves the checkpoint alone (synced_event_ids *)
(* and last_synced_timestamp in memory, STATE_FILE on disk) and the loop   *)
(* goes on to the next event.                                              *)
(***************************************************************************)
TweetFailedIn(item) ==
  \E i \in DOMAIN item.calls :
     item.calls[i].op = "create_tweet" /\ ~item.calls[i].ok

C3_FailedPublishKeepsCheckpoint ==
  [][ (pc = "loop" /\ lastItem' # lastItem /\ TweetFailedIn(lastItem'))
        => /\ state' = state
           /\ new_last_ts' = new_last_ts
           /\ file' = file
           /\ pc' = "loop"
           /\ idx' = idx + 1 ]_vars

C3_Witness ==
  /\ ItemDone
  /\ TweetFailedIn(lastItem)
  /\ pc = "loop"
  /\ idx = lastItem.idx + 1
  /\ idx <= Len(event_list)
  /\ state = lastItem.before
  /\ file = lastItem.fileBefore

(***************************************************************************)
(* C4. Retry: an event whose create_tweet failed in one process is fetched *)
(* and tried again by the next process (which has a Twitter client and     *)
(* runs to its end), also when a later event of the same batch was         *)
(* published by the process in which it failed.                            *)
(***************************************************************************)
FailedIn(r, p) ==
  /\ \E i \in TweetsOf(r) : tweets[i].id = p /\ ~tweets[i].ok
  /\ \A i \in TweetsOf(r) : tweets[i].id = p => ~tweets[i].ok

C4_FailedPublishRetriedNextRun ==
  \A r \in 1..(Len(runs) - 1) :
     (runs[r + 1].ended = "returned" /\ runs[r + 1].twitter)
       => \A p \in Posts :
             FailedIn(r, p) => \E i \in TweetsOf(r + 1) : tweets[i].id = p

(***************************************************************************)
(* C5. A failing save_state after a successful create_tweet stops the      *)
(* process: no create_tweet follows in the same process.                   *)
(***************************************************************************)
C5_PersistenceErrorStopsRun ==
  \A i, j \in DOMAIN tweets :
     (i < j /\ tweets[i].run = tweets[j].run)
       => ~(tweets[i].ok /\ ~tweets[i].saved)

(***************************************************************************)
(* C6. Crash safety: when a process is killed, also in the middle of       *)
(* save_state, the next process loads a checkpoint that still holds every  *)
(* id recorded before the iteration that was under way.                    *)
(***************************************************************************)
C6_CrashKeepsRecordedIds ==
  (pc = "loop" /\ Len(runs) = runNo - 1 /\ runNo > 1
     /\ runs[runNo - 1].ended = "killed")
    => Range(runs[runNo - 1].state.synced_event_ids)
         \subseteq Range(runStart.state.synced_event_ids)

InSuccession(r) ==
  /\ runs[r].ended = "returned"
  /\ runs[r + 1].ended = "returned"
  /\ runs[r + 1].source = runs[r].source

\* every create_tweet of process r succeeded and was followed by a
\* successful save_state
Clean(r) == \A i \in TweetsOf(r) : tweets[i].ok /\ tweets[i].saved

SavedIn(item) ==
  \E i \in DOMAIN item.calls :
     item.calls[i].op = "save_state" /\ item.calls[i].ok

C9_RecentIdsCappedFifo ==
  /\ Len(state.synced_event_ids) <= Cap
  /\ file.kind = "json" => Len(file.data.synced_event_ids) <= Cap
  /\ (ItemDone /\ SavedIn(lastItem))
       => /\ state.synced_event_ids =
               IF Len(lastItem.before.synced_event_ids) < Cap
               THEN Append(lastItem.before.synced_event_ids, lastItem.id)
               ELSE Append(Tail(lastItem.before.synced_event_ids), lastItem.id)
          /\ file = Json(state)

C9_Witness ==
  /\ ItemDone
  /\ SavedIn(lastItem)
  /\ Len(lastItem.before.synced_event_ids) = Cap
  /\ Len(state.synced_event_ids) = Cap
  /\ lastItem.before.synced_event_ids[1] \notin Range(state.synced_event_ids)
  /\ lastItem.before.synced_event_ids[1] \notin FileIds

(***************************************************************************)
(* C10. Replies: an event with an 'e' or 'reply' tag is skipped: no media  *)
(* download, no upload, no create_tweet, and the checkpoint is not         *)
(* touched; no reply is ever published.                                    *)
(***************************************************************************)
C10_RepliesSkipped ==
  /\ \A i \in DOMAIN tweets : ~IsReplyNote(tweets[i].id)
  /\ (ItemDone /\ IsReplyNote(lastItem.id))
       => /\ lastItem.calls = << >>
          /\ state = lastItem.before
          /\ file = lastItem.fileBefore

C10_Witness ==
  /\ ItemDone
  /\ twitter
  /\ IsReplyNote(lastItem.id)
  /\ lastItem.id \notin Range(lastItem.before.synced_event_ids)
  /\ MediaUrls(lastItem.id) # << >>
  /\ TweetsOf(runNo) # {}

(***************************************************************************)
(* C11. last_synced_timestamp never decreases: recording a published event *)
(* sets it to the larger of its value and the event's created_at, and the  *)
(* value STATE_FILE holds when a process ends is at least the value it     *)
(* held when any earlier process ended.                                    *)
(***************************************************************************)
PublishedIn(item) ==
  \E i \in DOMAIN item.calls :
     item.calls[i].op = "create_tweet" /\ item.calls[i].ok

Max(a, b) == IF a >= b THEN a ELSE b

\* within a process
C11_RecordingTakesMax ==
  (ItemDone /\ pc = "loop" /\ PublishedIn(lastItem))
    => state.last_synced_timestamp =
         Max(lastItem.before.last_synced_timestamp, created_at[lastItem.id])

C11_LastSyncedNeverDecreases ==
  /\ C11_RecordingTakesMax
  /\ \A r, q \in DOMAIN runs :
        (r < q /\ runs[r].file.kind = "json" /\ runs[q].file.kind = "json")
          => runs[q].file.data.last_synced_timestamp
               >= runs[r].file.data.last_synced_timestamp

(***************************************************************************)
(* C12. No temp file made while an event was processed is left on disk     *)
(* when its iteration is over and the loop goes on, whatever happened in   *)
(* the iteration (published, create_tweet failed, upload failed, dry run,  *)
(* download failed after the file was made).                               *)
(***************************************************************************)
C12_NoTempFileSurvivesItem ==
  (ItemDone /\ pc = "loop")
    => \A k \in DOMAIN MediaUrls(lastItem.id) :
          <<lastItem.run, lastItem.id, k>> \notin tmpdir

(***************************************************************************)
(* C13. Partial media failure: an event that is neither a duplicate nor a  *)
(* reply is passed to create_tweet exactly once when a Twitter client      *)
(* exists, whatever happened to its media, and the media_ids passed are    *)
(* the handles of exactly the URLs that were downloaded and uploaded, in   *)
(* the order of the URLs in the content.                                   *)
(***************************************************************************)
CallOk(item, op, u) ==
  \E i \in DOMAIN item.calls :
     /\ item.calls[i].op = op
     /\ item.calls[i].arg = <<u>>
     /\ item.calls[i].ok

Resolved(u) == CallOk(lastItem, "download", u) /\ CallOk(lastItem, "upload", u)

C13_PublishedWithResolvedMedia ==
  (ItemDone /\ twitter
     /\ lastItem.id \notin Range(lastItem.before.synced_event_ids)
     /\ ~IsReplyNote(lastItem.id))
    => /\ Cardinality(ItemCalls("create_tweet")) = 1
       /\ \A i \in ItemCalls("create_tweet") :
             lastItem.calls[i].arg = SelectSeq(MediaUrls(lastItem.id), Resolved)

C13_Witness ==
  /\ ItemDone
  /\ Len(MediaUrls(lastItem.id)) = 2
  /\ ~Resolved(MediaUrls(lastItem.id)[1])
  /\ \E i \in ItemCalls("create_tweet") :
        /\ lastItem.calls[i].ok
        /\ lastItem.calls[i].arg = <<MediaUrls(lastItem.id)[2]>>

(***************************************************************************)
(* C14. With no monitored author or no relay configured, a process makes   *)
(* no call on the Nostr client (no connect, no fetch_events), no media     *)
(* download or upload, no create_tweet, and leaves STATE_FILE as it was.   *)
(***************************************************************************)
\* the part about Twitter and the state file
C14_NothingPublishedOrWritten ==
  (runNo > 0 /\ ~Usable(config))
    => /\ ~ItemDone
       /\ TweetsOf(runNo) = {}
       /\ file = runStart.file

C14_ConfigErrorAbortsBeforeNetwork ==
  /\ C14_NothingPublishedOrWritten
  /\ (runNo > 0 /\ ~Usable(config)) => runStart.net = << >>

(***************************************************************************)
(* C15. load_state always yields a usable checkpoint: the default          *)
(* (now - 24 h, no ids) when STATE_FILE is missing or does not parse, and  *)
(* for every file that parses a value on which the process that loaded it  *)
(* does not fail.                                                          *)
(***************************************************************************)
\* the part about files that are missing or do not parse
C15_DefaultWhenMissingOrCorrupt ==
  (runNo > 0 /\ ~Parses(runStart.file))
    => /\ runStart.state \in {Checkpoint(t - Day, << >>) : t \in Clock}
       /\ \A r \in DOMAIN runs : r = runNo => runs[r].ended # "raised_state"

C15_LoadedCheckpointUsable ==
  /\ C15_DefaultWhenMissingOrCorrupt
  /\ \A r \in DOMAIN runs : runs[r].ended # "raised_state"

(***************************************************************************)
(* C16. extract_media_urls: every media URL of the content (a URL whose    *)
(* end is an extension of MEDIA_EXTENSIONS, in either case) is in the      *)
(* media list and occurs nowhere in the clean text; every other URL of     *)
(* the content is still a URL of the clean text and is not in the media    *)
(* list; content without a media URL comes back unchanged with an empty    *)
(* list.                                                                   *)
(***************************************************************************)
Extracted == pc \in {"extracted", "tweeted"}

UrlsOf(text) == Range(FindUrls(text, 1))

\* an independent reading of "media URL": the URL ends in .jpg or .JPG
EndsInMediaExtension(url) == url[Len(url)] \in {"j", "J"}

Occurs(text, u) ==
  \E i \in 1..Len(text) :
     i + Len(u) - 1 <= Len(text) /\ SubSeq(text, i, i + Len(u) - 1) = u

\* the part about media URLs
C16_MediaUrlsMoved ==
  Extracted =>
    \A u \in UrlsOf(content) :
       EndsInMediaExtension(u) => u \in Range(media_urls) /\ ~Occurs(clean_text, u)

\* the part about content without media URLs
C16_NoMediaNoChange ==
  (Extracted /\ \A u \in UrlsOf(content) : ~EndsInMediaExtension(u))
    => clean_text = content /\ media_urls = << >>

\* the part about the other URLs
C16_OtherUrlsKept ==
  Extracted =>
    \A u \in UrlsOf(content) :
       ~EndsInMediaExtension(u)
         => u \in UrlsOf(clean_text) /\ u \notin Range(media_urls)

C16_MediaExtracted ==
  /\ C16_MediaUrlsMoved
  /\ C16_NoMediaNoChange
  /\ C16_OtherUrlsKept

(***************************************************************************)
(* C17. The text given to create_tweet is never longer than the limit: a   *)
(* clean text within the limit is passed as it is, a longer one as its     *)
(* first (limit - 3) characters followed by "...", the limit in all.       *)
(***************************************************************************)
C17_TextWithinLimit ==
  pc = "tweeted" =>
    /\ Len(tweet_text) <= TweetLimit
    /\ Len(clean_text) <= TweetLimit => tweet_text = clean_text
    /\ Len(clean_text) > TweetLimit =>
         /\ Len(tweet_text) = TweetLimit
         /\ \A i \in 1..(TweetLimit - 3) : tweet_text[i] = clean_text[i]
         /\ \A i \in (TweetLimit - 2)..TweetLimit : tweet_text[i] = "."

C17_Witness ==
  /\ pc = "tweeted"
  /\ Len(clean_text) = TweetLimit + 2
  /\ Len(tweet_text) = TweetLimit
  /\ tweet_text # SubSeq(clean_text, 1, TweetLimit)

(***************************************************************************)
(* C18. STATE_FILE reflects only published events: every id it holds is    *)
(* an id of the file found by the first process or the id of an event for  *)
(* which create_tweet returned, and its last_synced_timestamp is the one   *)
(* of that first file or the created_at of such an event.                  *)
(***************************************************************************)
\* ids of the events for which create_tweet returned
PublishedIds == {tweets[i].id : i \in {j \in DOMAIN tweets : tweets[j].ok}}

C18_CheckpointOnlyPublished ==
  file.kind = "json" =>
    /\ FileIds \subseteq
          PublishedIds \cup
          (IF file0.kind = "json" THEN Range(file0.data.synced_event_ids) ELSE {})
    /\ \/ file0.kind = "json"
          /\ file.data.last_synced_timestamp = file0.data.last_synced_timestamp
       \/ \E p \in PublishedIds :
             file.data.last_synced_timestamp = created_at[p]

\* a process killed between two iterations, after it published and
\* recorded one event, with another event still to come
C18_Witness ==
  /\ runs # << >>
  /\ runs[Len(runs)].ended = "killed"
  /\ ItemDone
  /\ SavedIn(lastItem)
  /\ idx = lastItem.idx + 1
  /\ idx <= Len(event_list)
  /\ file = Json(state)
  /\ lastItem.id \in FileIds
  /\ file0.kind = "json"
  /\ file.data.last_synced_timestamp > file0.data.last_synced_timestamp

(***************************************************************************)
(* C19. No event is published twice, also after its id has left            *)
(* synced_event_ids, because a later fetch asks only for created_at above  *)
(* a last_synced_timestamp that is at least the created_at of everything   *)
(* published.                                                              *)
(***************************************************************************)
NoDuplicatePublish ==
  \A i, j \in DOMAIN tweets :
     (i < j /\ tweets[i].ok /\ tweets[j].ok) => tweets[i].id # tweets[j].id

\* as claimed: given that no save_state call failed
C19_NoDuplicatePublish ==
  (\A i \in DOMAIN tweets :
      tweets[i].sv \notin {"open_fail", "write_fail", "kill_during"})
    => NoDuplicatePublish

\* as amended: given that every create_tweet that returned was followed by
\* a save_state that completed
C19_NoDuplicatePublishWhenRecorded ==
  (\A i \in DOMAIN tweets : tweets[i].ok => tweets[i].sv = "ok")
    => NoDuplicatePublish

\* an event published and recorded by the first process, its id evicted
\* from the file before that process ended, and a second process with a
\* Twitter client run to its end
C19_Witness ==
  /\ Len(runs) = 2
  /\ runs[2].ended = "returned"
  /\ runs[2].twitter
  /\ Usable(config)
  /\ \A i \in DOMAIN tweets : tweets[i].ok => tweets[i].sv = "ok"
  /\ runs[1].file.kind = "json"
  /\ \E i \in TweetsOf(1) :
        /\ tweets[i].ok
        /\ tweets[i].id \notin Range(runs[1].file.data.synced_event_ids)
        /\ tweets[i].id \in runs[2].source

(***************************************************************************)
(* C20. Across all processes of a behaviour, the events for which          *)
(* create_tweet returned have non-decreasing created_at in the order of    *)
(* the calls: nothing older than an event already published is published   *)
(* later, also when save_state fails in some process.                      *)
(***************************************************************************)
C20_PublishOrderAcrossRuns ==
  \A i, j \in DOMAIN tweets :
     (i < j /\ tweets[i].ok /\ tweets[j].ok)
       => created_at[tweets[i].id] <= created_at[tweets[j].id]

\* the same, for behaviours in which every create_tweet that returned was
\* followed by a save_state that completed
C20_PublishOrderWhenRecorded ==
  (\A i \in DOMAIN tweets : tweets[i].ok => tweets[i].sv = "ok")
    => C20_PublishOrderAcrossRuns

====
